---- MODULE Spec2Model ----
(***************************************************************************)
(* humanize-units: humanizeUnit, selectUnit, the helper wrappers and the   *)
(* unit tables, as a state machine over single calls.                      *)
(*                                                                         *)
(* Numbers.  A JavaScript number is a record                               *)
(*     [kind, neg, m, e]                                                   *)
(* kind "finite" stands for (-1)^neg * m * 10^e  (m a natural number),     *)
(* kind "NaN" and "Infinity" for the non-finite doubles, and kind "null"   *)
(* and "undefined" for the two nullish arguments humanizeUnit accepts.     *)
(* Decimal mantissa/exponent keeps 10^24 and 10^-12 inside TLC's integers. *)
(* Comparison, division and rounding are exact on these decimals; the      *)
(* inputs are values whose double quotient rounds the same way.            *)
(*                                                                         *)
(* Optional values.  A value that may be undefined (the options argument,  *)
(* a field of it) is a sequence of length 0 (undefined) or 1 (the value).  *)
(* An options object is a function from the names of the properties it     *)
(* owns to such optional values.                                           *)
(***************************************************************************)
EXTENDS Integers, Sequences, FiniteSets, TLC

\* ------------------------------------------------------------------ numbers

Num(neg, m, e) == [kind |-> "finite", neg |-> neg, m |-> m, e |-> e]
Pos(m, e) == Num(FALSE, m, e)
Special(kind, neg) == [kind |-> kind, neg |-> neg, m |-> 0, e |-> 0]

Null == Special("null", FALSE)
UndefinedValue == Special("undefined", FALSE)
NaN == Special("NaN", FALSE)
PosInfinity == Special("Infinity", FALSE)
NegInfinity == Special("Infinity", TRUE)

IsZero(x) == x.kind = "finite" /\ x.m = 0

\* -x
Negate(x) == [x EXCEPT !.neg = ~x.neg]

RECURSIVE Pow10(_)
Pow10(k) == IF k <= 0 THEN 1 ELSE 10 * Pow10(k - 1)

RECURSIVE NumDigits(_)
NumDigits(n) == IF n < 10 THEN 1 ELSE 1 + NumDigits(n \div 10)

\* position of the leading digit of m * 10^e (m > 0)
Order(x) == NumDigits(x.m) + x.e

\* |a| >= |b| on finite numbers
MagnitudeGE(a, b) ==
  IF b.m = 0 THEN TRUE
  ELSE IF a.m = 0 THEN FALSE
  ELSE IF Order(a) # Order(b) THEN Order(a) > Order(b)
  ELSE IF a.e >= b.e THEN a.m * Pow10(a.e - b.e) >= b.m
  ELSE a.m >= b.m * Pow10(b.e - a.e)

\* |a| = |b| on finite numbers
MagnitudeEQ(a, b) == MagnitudeGE(a, b) /\ MagnitudeGE(b, a)

\* a >= b for a non-negative a (the only comparison selectUnit makes)
NonNegGE(a, b) == IF b.neg /\ b.m # 0 THEN TRUE ELSE MagnitudeGE(a, b)

\* b <= 0
NonPositive(b) == b.m = 0 \/ b.neg

\* Math.abs
abs(x) == [x EXCEPT !.neg = FALSE]

\* ------------------------------------------------------------------ quotient
\* value / divider, kept exact: (-1)^neg * (num / den) * 10^shift
Quotient(value, divider) ==
  [neg |-> (value.neg # divider.neg), num |-> value.m, den |-> divider.m,
   shift |-> value.e - divider.e]

\* largest o with 10^o <= num / den  (num, den > 0)
RECURSIVE OrderOfRatio(_, _)
OrderOfRatio(num, den) ==
  IF num >= 10 * den THEN 1 + OrderOfRatio(num, 10 * den)
  ELSE IF num < den THEN OrderOfRatio(10 * num, den) - 1
  ELSE 0

RoundHalfExpand_Truncated(num, den) == num \div den

\* num / den rounded to the nearest integer, ties away from zero (halfExpand)
RoundHalfExpand(num, den) == (2 * num + den) \div (2 * den)

\* ------------------------------------------------------------------ strings

Digit(d) ==
  CASE d = 0 -> "0" [] d = 1 -> "1" [] d = 2 -> "2" [] d = 3 -> "3" [] d = 4 -> "4"
    [] d = 5 -> "5" [] d = 6 -> "6" [] d = 7 -> "7" [] d = 8 -> "8" [] d = 9 -> "9"

RECURSIVE DigitsOf(_)
DigitsOf(n) == IF n < 10 THEN Digit(n) ELSE DigitsOf(n \div 10) \o Digit(n % 10)

RECURSIVE Zeros(_)
Zeros(k) == IF k <= 0 THEN "" ELSE "0" \o Zeros(k - 1)

StartsWith(s, prefix) ==
  Len(s) >= Len(prefix) /\ SubSeq(s, 1, Len(prefix)) = prefix

\* ------------------------------------------------------------------ Intl.NumberFormat
\* The two locales the tests use.
DecimalMark(locale) == IF locale = "de-DE" THEN "," ELSE "."
GroupMark(locale) == IF locale = "de-DE" THEN "." ELSE ","

\* integer digits in groups of three from the right
RECURSIVE Grouped(_, _)
Grouped(digits, mark) ==
  IF Len(digits) <= 3 THEN digits
  ELSE Grouped(SubSeq(digits, 1, Len(digits) - 3), mark) \o mark
         \o SubSeq(digits, Len(digits) - 2, Len(digits))

\* trailing fraction zeros are dropped while more than minSD digits remain
RECURSIVE StripZeros(_, _, _)
StripZeros(n, p, minSD) ==
  IF p < 0 /\ n % 10 = 0 /\ NumDigits(n) > minSD
  THEN StripZeros(n \div 10, p + 1, minSD)
  ELSE [n |-> n, p |-> p]

Plain_AlwaysGrouped(n, p, useGrouping, locale) ==
  LET digits == DigitsOf(n)
      intPart == IF p >= 0 THEN digits \o Zeros(p)
                 ELSE IF Len(digits) > -p THEN SubSeq(digits, 1, Len(digits) + p)
                 ELSE "0"
      fracPart == IF p >= 0 THEN ""
                  ELSE IF Len(digits) > -p
                       THEN SubSeq(digits, Len(digits) + p + 1, Len(digits))
                  ELSE Zeros(-p - Len(digits)) \o digits
  IN Grouped(intPart, GroupMark(locale))
       \o (IF fracPart = "" THEN "" ELSE DecimalMark(locale) \o fracPart)

\* the decimal expansion of n * 10^p  (n > 0)
Plain(n, p, useGrouping, locale) ==
  LET digits == DigitsOf(n)
      intPart == IF p >= 0 THEN digits \o Zeros(p)
                 ELSE IF Len(digits) > -p THEN SubSeq(digits, 1, Len(digits) + p)
                 ELSE "0"
      fracPart == IF p >= 0 THEN ""
                  ELSE IF Len(digits) > -p
                       THEN SubSeq(digits, Len(digits) + p + 1, Len(digits))
                  ELSE Zeros(-p - Len(digits)) \o digits
  IN (IF useGrouping THEN Grouped(intPart, GroupMark(locale)) ELSE intPart)
       \o (IF fracPart = "" THEN "" ELSE DecimalMark(locale) \o fracPart)

\* new Intl.NumberFormat(locale, {maximumSignificantDigits, minimumSignificantDigits,
\* useGrouping}): the constructor throws a RangeError for digit options outside
\* 1..21 or a maximum below the minimum.
FormatterThrows_Never(maxSD, minSD) == FALSE

\* new Intl.NumberFormat(locale, {maximumSignificantDigits, minimumSignificantDigits})
\* throws a RangeError
FormatterThrows(maxSD, minSD) ==
  minSD < 1 \/ minSD > 21 \/ maxSD < minSD \/ maxSD > 21

\* formatter.format(q): q rounded to maxSD significant digits, ties away from zero
FormatNumber(q, maxSD, minSD, useGrouping, locale) ==
  LET sign == IF q.neg THEN "-" ELSE ""
  IN IF q.num = 0
     THEN sign \o "0" \o (IF minSD > 1 THEN DecimalMark(locale) \o Zeros(minSD - 1) ELSE "")
     ELSE LET o == OrderOfRatio(q.num, q.den)
              k == maxSD - 1 - o
              n == IF k >= 0 THEN RoundHalfExpand(q.num * Pow10(k), q.den)
                   ELSE RoundHalfExpand(q.num, q.den * Pow10(-k))
              s == StripZeros(n, q.shift - k, minSD)
          IN sign \o Plain(s.n, s.p, useGrouping, locale)

\* ------------------------------------------------------------------ optional values

None == <<>>
Some(x) == <<x>>

\* ------------------------------------------------------------------ unit tables
\* type Unit = { value: number; unit: string }
Unit(value, unit) == [value |-> value, unit |-> unit]

One == Pos(1, 0)

SI ==
  << Unit(Pos(1, 24), "Y"), Unit(Pos(1, 21), "Z"), Unit(Pos(1, 18), "E"),
     Unit(Pos(1, 15), "P"), Unit(Pos(1, 12), "T"), Unit(Pos(1, 9), "G"),
     Unit(Pos(1, 6), "M"), Unit(Pos(1, 3), "k"), Unit(Pos(1, 0), ""),
     Unit(Pos(1, -3), "m"), Unit(Pos(1, -6), "u"), Unit(Pos(1, -9), "n"),
     Unit(Pos(1, -12), "p") >>

\* the micro sign of the microsecond entry is written "u": state strings are ASCII
Time ==
  << Unit(Pos(31536, 3), "y"), Unit(Pos(6048, 2), "w"), Unit(Pos(864, 2), "d"),
     Unit(Pos(36, 2), "h"), Unit(Pos(6, 1), "m"), Unit(Pos(1, 0), "s"),
     Unit(Pos(1, -3), "ms"), Unit(Pos(1, -6), "us"), Unit(Pos(1, -9), "ns"),
     Unit(Pos(1, -12), "ps"), Unit(Pos(1, -15), "fs") >>

\* a >= b on finite numbers, signs included
SignedGE(a, b) ==
  IF a.neg /\ a.m # 0
  THEN b.neg /\ b.m # 0 /\ MagnitudeGE(b, a)
  ELSE NonNegGE(a, b)

\* x placed behind the entries that are not smaller than it
RECURSIVE InsertDescending(_, _)
InsertDescending(sorted, x) ==
  IF Len(sorted) = 0 THEN << x >>
  ELSE IF SignedGE(sorted[1].value, x.value)
       THEN << sorted[1] >> \o InsertDescending(Tail(sorted), x)
  ELSE << x >> \o sorted

\* units.sort((a, b) => b.value - a.value): stable, largest threshold first
RECURSIVE SortDescending(_)
SortDescending(units) ==
  IF Len(units) = 0 THEN << >>
  ELSE InsertDescending(SortDescending(SubSeq(units, 1, Len(units) - 1)),
                        units[Len(units)])

SI_PREFIXES ==
  << [prefix |-> "Y", exponent |-> 24], [prefix |-> "Z", exponent |-> 21],
     [prefix |-> "E", exponent |-> 18], [prefix |-> "P", exponent |-> 15],
     [prefix |-> "T", exponent |-> 12], [prefix |-> "G", exponent |-> 9],
     [prefix |-> "M", exponent |-> 6], [prefix |-> "k", exponent |-> 3],
     [prefix |-> "", exponent |-> 0], [prefix |-> "m", exponent |-> -3],
     [prefix |-> "u", exponent |-> -6], [prefix |-> "n", exponent |-> -9],
     [prefix |-> "p", exponent |-> -12], [prefix |-> "f", exponent |-> -15],
     [prefix |-> "a", exponent |-> -18], [prefix |-> "z", exponent |-> -21],
     [prefix |-> "y", exponent |-> -24] >>

siUnits_MaxExcluded(postfix, minExponentOption, maxExponentOption) ==
  LET minExponent == IF minExponentOption = None THEN -9 ELSE minExponentOption[1]
      maxExponent == IF maxExponentOption = None THEN 15 ELSE maxExponentOption[1]
      kept == SelectSeq(SI_PREFIXES,
                        LAMBDA entry : entry.exponent >= minExponent
                                         /\ entry.exponent < maxExponent)
  IN SortDescending([i \in 1..Len(kept) |->
                      Unit(Pos(1, kept[i].exponent), kept[i].prefix \o postfix)])

\* siUnits(postfix, { minExponent, maxExponent }): the prefixes in the exponent
\* range, each with the postfix appended, largest first
siUnits(postfix, minExponentOption, maxExponentOption) ==
  LET minExponent == IF minExponentOption = None THEN -9 ELSE minExponentOption[1]
      maxExponent == IF maxExponentOption = None THEN 15 ELSE maxExponentOption[1]
      kept == SelectSeq(SI_PREFIXES,
                        LAMBDA entry : entry.exponent >= minExponent
                                         /\ entry.exponent <= maxExponent)
  IN SortDescending([i \in 1..Len(kept) |->
                      Unit(Pos(1, kept[i].exponent), kept[i].prefix \o postfix)])

Count == siUnits("", Some(0), Some(15))
Bytes == siUnits("B", Some(0), Some(15))

\* 1024 ** k. From 1024 ** 4 on the number is above 2^31 and is written with its
\* four leading digits: the thresholds keep their order, and every value of the
\* model is below 1024 ** 3, so none is divided by such a threshold
Pow1024(k) ==
  CASE k = 0 -> Pos(1, 0)
    [] k = 1 -> Pos(1024, 0)
    [] k = 2 -> Pos(1048576, 0)
    [] k = 3 -> Pos(1073741824, 0)
    [] k = 4 -> Pos(1099, 9)
    [] k = 5 -> Pos(1125, 12)
    [] k = 6 -> Pos(1152, 15)
    [] k = 7 -> Pos(1180, 18)
    [] k = 8 -> Pos(1208, 21)

Binary_ZeroLast ==
  << Unit(Pow1024(1), "Ki"), Unit(Pos(0, 0), "") >>

Binary ==
  << Unit(Pow1024(8), "Yi"), Unit(Pow1024(7), "Zi"), Unit(Pow1024(6), "Ei"),
     Unit(Pow1024(5), "Pi"), Unit(Pow1024(4), "Ti"), Unit(Pow1024(3), "Gi"),
     Unit(Pow1024(2), "Mi"), Unit(Pow1024(1), "Ki"), Unit(Pow1024(0), "") >>

BytesBinary ==
  << Unit(Pow1024(8), "YiB"), Unit(Pow1024(7), "ZiB"), Unit(Pow1024(6), "EiB"),
     Unit(Pow1024(5), "PiB"), Unit(Pow1024(4), "TiB"), Unit(Pow1024(3), "GiB"),
     Unit(Pow1024(2), "MiB"), Unit(Pow1024(1), "KiB"), Unit(Pow1024(0), "B") >>

\* Time as units.ts has it, from years to milliseconds
TimeToMilliseconds == SubSeq(Time, 1, 7)

\* the tables made with siUnits; the degree sign is written "deg" and the ohm
\* sign "Ohm": state strings are ASCII
PhysicalTables ==
  [ Distance |-> siUnits("m", Some(-6), Some(6)),
    Mass |-> siUnits("g", Some(-3), Some(6)),
    Acceleration |-> siUnits("m/s^2", Some(-3), Some(3)),
    Charge |-> siUnits("C", Some(-9), Some(3)),
    Momentum |-> siUnits("N*s", Some(-6), Some(6)),
    Power |-> siUnits("W", Some(-3), Some(12)),
    Velocity |-> siUnits("m/s", Some(-6), Some(6)),
    Volume |-> siUnits("m^3", Some(-6), Some(6)),
    LiquidVolume |-> siUnits("L", Some(-3), Some(6)),
    Temperature |-> siUnits("degC", Some(-3), Some(3)),
    TemperatureKelvin |-> siUnits("degK", Some(-3), Some(3)),
    Pressure |-> siUnits("Pa", Some(-3), Some(12)),
    Force |-> siUnits("N", Some(-3), Some(12)),
    Torque |-> siUnits("N*m", Some(-3), Some(12)),
    Energy |-> siUnits("J", Some(-3), Some(12)),
    Voltage |-> siUnits("V", Some(-3), Some(12)),
    Current |-> siUnits("A", Some(-3), Some(12)),
    Resistance |-> siUnits("Ohm", Some(-3), Some(12)),
    Capacitance |-> siUnits("F", Some(-3), Some(12)),
    Inductance |-> siUnits("H", Some(-3), Some(12)),
    Frequency |-> siUnits("Hz", Some(-3), Some(12)),
    Angle |-> siUnits("deg", Some(-3), Some(12)),
    Length |-> siUnits("m", Some(-3), Some(12)),
    Area |-> siUnits("m^2", Some(-3), Some(12)),
    VolumeFlowRate |-> siUnits("m^3/s", Some(-3), Some(12)),
    MassFlowRate |-> siUnits("kg/s", Some(-3), Some(12)),
    Density |-> siUnits("kg/m^3", Some(-3), Some(12)),
    Concentration |-> siUnits("mol/m^3", Some(-3), Some(12)),
    MolarMass |-> siUnits("g/mol", Some(-3), Some(12)),
    MolarVolume |-> siUnits("m^3/mol", Some(-3), Some(12)),
    MolarDensity |-> siUnits("mol/m^3", Some(-3), Some(12)),
    MolarConcentration |-> siUnits("mol/m^3", Some(-3), Some(12)),
    MagneticFlux |-> siUnits("Wb", Some(-3), Some(9)),
    MagneticFluxDensity |-> siUnits("T", Some(-9), Some(3)),
    Illuminance |-> siUnits("lx", Some(-6), Some(6)),
    LuminousFlux |-> siUnits("lm", Some(-6), Some(6)),
    Radioactivity |-> siUnits("Bq", Some(-3), Some(12)),
    RadiationDoseEquivalent |-> siUnits("Sv", Some(-6), Some(6)),
    RadiationDoseAbsorbed |-> siUnits("Gy", Some(-6), Some(6)),
    CatalyticActivity |-> siUnits("kat", Some(-3), Some(6)) ]

\* the exported tables, by name
BuiltInTables ==
  [ SI |-> SI, Binary |-> Binary, Time |-> Time,
    TimeToMilliseconds |-> TimeToMilliseconds,
    Count |-> Count, Bytes |-> Bytes, BytesDecimal |-> Bytes, Storage |-> Bytes,
    BytesBinary |-> BytesBinary, StorageBinary |-> BytesBinary ] @@ PhysicalTables

\* ------------------------------------------------------------------ options

DEFAULT_OPTIONS_CountUnits ==
  [ units |-> Some(Count),
    postfix |-> Some(""),
    significantDigits |-> Some(3),
    minimumSignificantDigits |-> Some(1),
    locale |-> Some("en-US"),
    useGrouping |-> Some(FALSE),
    unitSeparator |-> Some(""),
    emptyValue |-> Some("") ]

DEFAULT_OPTIONS_SpaceSeparator ==
  [ units |-> Some(SI),
    postfix |-> Some(""),
    significantDigits |-> Some(3),
    minimumSignificantDigits |-> Some(1),
    locale |-> Some("en-US"),
    useGrouping |-> Some(FALSE),
    unitSeparator |-> Some(" "),
    emptyValue |-> Some("") ]

DEFAULT_OPTIONS ==
  [ units |-> Some(SI),
    postfix |-> Some(""),
    significantDigits |-> Some(3),
    minimumSignificantDigits |-> Some(1),
    locale |-> Some("en-US"),
    useGrouping |-> Some(FALSE),
    unitSeparator |-> Some(""),
    emptyValue |-> Some("") ]

\* const { name = dflt } = obj : the default applies when obj.name is undefined
Destructure(obj, name, dflt) ==
  IF name \in DOMAIN obj /\ obj[name] # None THEN obj[name][1] ELSE dflt

\* ------------------------------------------------------------------ results

Returned(text) == [status |-> "returned", text |-> text]
Threw(message) == [status |-> "threw", text |-> message]

EmptyTableMessage == "humanizeUnit requires at least one unit definition."

\* ------------------------------------------------------------------ selectUnit

\* units.find((unit) => absoluteValue >= unit.value): the first index, 0 when none
RECURSIVE FindFrom(_, _, _)
FindFrom(absoluteValue, units, i) ==
  IF i > Len(units) THEN 0
  ELSE IF NonNegGE(absoluteValue, units[i].value) THEN i
  ELSE FindFrom(absoluteValue, units, i + 1)

RECURSIVE FindFrom_Signed(_, _, _)
FindFrom_Signed(x, units, i) ==
  IF i > Len(units) THEN 0
  ELSE IF SignedGE(x, units[i].value) THEN i
  ELSE FindFrom_Signed(x, units, i + 1)

selectUnit_Signed(value, units) ==
  LET found == FindFrom_Signed(value, units, 1)
  IN IF Len(units) = 0 THEN [threw |-> TRUE, index |-> 0]
     ELSE [threw |-> FALSE, index |-> IF found # 0 THEN found ELSE Len(units)]

selectUnit_FallbackFirst(value, units) ==
  LET absoluteValue == abs(value)
      found == FindFrom(absoluteValue, units, 1)
  IN IF Len(units) = 0 THEN [threw |-> TRUE, index |-> 0]
     ELSE [threw |-> FALSE, index |-> IF found # 0 THEN found ELSE 1]

\* the index of the chosen entry of units; threw when the table is empty
selectUnit(value, units) ==
  LET absoluteValue == abs(value)
      found == FindFrom(absoluteValue, units, 1)
  IN IF Len(units) = 0 THEN [threw |-> TRUE, index |-> 0]
     ELSE [threw |-> FALSE, index |-> IF found # 0 THEN found ELSE Len(units)]

\* ------------------------------------------------------------------ humanizeUnit

\* const { emptyValue = DEFAULT_OPTIONS.emptyValue, ... } = options ?? DEFAULT_OPTIONS
DestructureOptions_EmptyUnitsDefaulted(options, defaults) ==
  LET obj == IF options = None THEN defaults ELSE options[1]
      given == Destructure(obj, "units", defaults.units[1])
  IN [ emptyValue |-> Destructure(obj, "emptyValue", defaults.emptyValue[1]),
       units |-> IF Len(given) = 0 THEN defaults.units[1] ELSE given,
       postfix |-> Destructure(obj, "postfix", defaults.postfix[1]),
       locale |-> Destructure(obj, "locale", defaults.locale[1]),
       significantDigits |->
         Destructure(obj, "significantDigits", defaults.significantDigits[1]),
       minimumSignificantDigits |->
         Destructure(obj, "minimumSignificantDigits",
                     defaults.minimumSignificantDigits[1]),
       useGrouping |-> Destructure(obj, "useGrouping", defaults.useGrouping[1]),
       unitSeparator |-> Destructure(obj, "unitSeparator", defaults.unitSeparator[1]) ]

DestructureOptions_AllOrNothing(options, defaults) ==
  LET obj == IF options = None THEN defaults ELSE options[1]
      complete == \A f \in DOMAIN defaults : f \in DOMAIN obj /\ obj[f] # None
      taken == IF complete THEN obj ELSE defaults
  IN [f \in DOMAIN defaults |-> taken[f][1]]

DestructureOptions(options, defaults) ==
  LET obj == IF options = None THEN defaults ELSE options[1]
  IN [ emptyValue |-> Destructure(obj, "emptyValue", defaults.emptyValue[1]),
       units |-> Destructure(obj, "units", defaults.units[1]),
       postfix |-> Destructure(obj, "postfix", defaults.postfix[1]),
       locale |-> Destructure(obj, "locale", defaults.locale[1]),
       significantDigits |->
         Destructure(obj, "significantDigits", defaults.significantDigits[1]),
       minimumSignificantDigits |->
         Destructure(obj, "minimumSignificantDigits",
                     defaults.minimumSignificantDigits[1]),
       useGrouping |-> Destructure(obj, "useGrouping", defaults.useGrouping[1]),
       unitSeparator |-> Destructure(obj, "unitSeparator", defaults.unitSeparator[1]) ]

\* the early returns for null, undefined, NaN and the infinities: Some(result),
\* or None for a finite value
EdgeResult_NaNStringified(value, emptyValue) ==
  IF value.kind \in {"null", "undefined"} THEN Some(Returned(emptyValue))
  ELSE IF value.kind = "NaN" THEN Some(Returned("NaN"))
  ELSE IF value.kind = "Infinity"
       THEN Some(Returned(IF value.neg THEN "-Infinity" ELSE "Infinity"))
  ELSE None

EdgeResult_InfinityEmpty(value, emptyValue) ==
  IF value.kind \in {"null", "undefined"} THEN Some(Returned(emptyValue))
  ELSE IF value.kind \in {"NaN", "Infinity"} THEN Some(Returned(emptyValue))
  ELSE None

EdgeResult(value, emptyValue) ==
  IF value.kind \in {"null", "undefined"} THEN Some(Returned(emptyValue))
  ELSE IF value.kind = "NaN" THEN Some(Returned(emptyValue))
  ELSE IF value.kind = "Infinity"
       THEN Some(Returned(IF value.neg THEN "-Infinity" ELSE "Infinity"))
  ELSE None

\* `${formattedNumber}${separator}${targetUnit.unit}${postfix}` for a finite value
\* and the unit chosen for it; o holds the destructured options
Rendered_Unsigned(value, targetUnit, o) ==
  LET divider == IF IsZero(targetUnit.value) THEN One ELSE targetUnit.value
      formattedNumber ==
        FormatNumber(Quotient(abs(value), divider), o.significantDigits,
                     o.minimumSignificantDigits, o.useGrouping, o.locale)
      separator == IF targetUnit.unit # "" \/ o.postfix # "" THEN o.unitSeparator ELSE ""
  IN formattedNumber \o separator \o targetUnit.unit \o o.postfix

Rendered_SeparatorAlways(value, targetUnit, o) ==
  LET divider == IF IsZero(targetUnit.value) THEN One ELSE targetUnit.value
      formattedNumber ==
        FormatNumber(Quotient(value, divider), o.significantDigits,
                     o.minimumSignificantDigits, o.useGrouping, o.locale)
  IN formattedNumber \o o.unitSeparator \o targetUnit.unit \o o.postfix

Rendered_Unscaled(value, targetUnit, o) ==
  LET formattedNumber ==
        FormatNumber(Quotient(value, One), o.significantDigits,
                     o.minimumSignificantDigits, o.useGrouping, o.locale)
      separator == IF targetUnit.unit # "" \/ o.postfix # "" THEN o.unitSeparator ELSE ""
  IN formattedNumber \o separator \o targetUnit.unit \o o.postfix

Rendered_SeparatorForUnitOnly(value, targetUnit, o) ==
  LET divider == IF IsZero(targetUnit.value) THEN One ELSE targetUnit.value
      formattedNumber ==
        FormatNumber(Quotient(value, divider), o.significantDigits,
                     o.minimumSignificantDigits, o.useGrouping, o.locale)
      separator == IF targetUnit.unit # "" THEN o.unitSeparator ELSE ""
  IN formattedNumber \o separator \o targetUnit.unit \o o.postfix

Rendered(value, targetUnit, o) ==
  LET divider == IF IsZero(targetUnit.value) THEN One ELSE targetUnit.value
      formattedNumber ==
        FormatNumber(Quotient(value, divider), o.significantDigits,
                     o.minimumSignificantDigits, o.useGrouping, o.locale)
      separator == IF targetUnit.unit # "" \/ o.postfix # "" THEN o.unitSeparator ELSE ""
  IN formattedNumber \o separator \o targetUnit.unit \o o.postfix

\* value rounded to a number of significant digits
RoundedTo(value, digits) ==
  LET d == NumDigits(value.m)
  IN IF digits < 1 \/ d <= digits THEN value
     ELSE Num(value.neg, RoundHalfExpand(value.m, Pow10(d - digits)),
              value.e + d - digits)

FiniteResult_SelectsRounded(value, o) ==
  LET rounded == RoundedTo(value, o.significantDigits)
      selected == selectUnit(IF IsZero(value) THEN One ELSE rounded, o.units)
  IN IF selected.threw THEN Threw(EmptyTableMessage)
     ELSE IF FormatterThrows(o.significantDigits, o.minimumSignificantDigits)
          THEN Threw("RangeError")
     ELSE Returned(Rendered(value, o.units[selected.index], o))

\* the body of humanizeUnit past the early returns
FiniteResult(value, o) ==
  LET selected == selectUnit(IF IsZero(value) THEN One ELSE value, o.units)
  IN IF selected.threw THEN Threw(EmptyTableMessage)
     ELSE IF FormatterThrows(o.significantDigits, o.minimumSignificantDigits)
          THEN Threw("RangeError")
     ELSE Returned(Rendered(value, o.units[selected.index], o))

Humanized_ValidatesFirst(value, options, defaults) ==
  LET o == DestructureOptions(options, defaults)
      edge == EdgeResult(value, o.emptyValue)
  IN IF Len(o.units) = 0 THEN Threw(EmptyTableMessage)
     ELSE IF FormatterThrows(o.significantDigits, o.minimumSignificantDigits)
          THEN Threw("RangeError")
     ELSE IF edge # None THEN edge[1] ELSE FiniteResult(value, o)

\* the string (or the error) of humanizeUnit(value, options)
Humanized(value, options, defaults) ==
  LET o == DestructureOptions(options, defaults)
      edge == EdgeResult(value, o.emptyValue)
  IN IF edge # None THEN edge[1] ELSE FiniteResult(value, o)

humanizeUnit_AssignsDefaults(value, options, defaults) ==
  LET o == DestructureOptions(options, defaults)
  IN [ result |-> Humanized(value, options, defaults),
       options |-> options,
       defaults |-> [f \in DOMAIN defaults |-> Some(o[f])] ]

\* one call: its result, and its arguments and the module's defaults as the call
\* leaves them (the function assigns to none of them)
humanizeUnit(value, options, defaults) ==
  [ result |-> Humanized(value, options, defaults),
    options |-> options,
    defaults |-> defaults ]

\* ------------------------------------------------------------------ normalizeUnits

TableReturned(units) == [status |-> "returned", text |-> "", units |-> units]
TableThrew(message) == [status |-> "threw", text |-> message, units |-> << >>]

NonPositiveMessage == "humanizeUnit only supports units with a positive value."

normalizeUnits_AsGiven(units) ==
  IF Len(units) = 0 THEN TableThrew(EmptyTableMessage)
  ELSE IF \E i \in 1..Len(units) : NonPositive(units[i].value)
       THEN TableThrew(NonPositiveMessage)
  ELSE TableReturned(units)

\* normalizeUnits(units): a sorted copy of the table, or the error for an empty
\* table or a threshold <= 0
normalizeUnits(units) ==
  IF Len(units) = 0 THEN TableThrew(EmptyTableMessage)
  ELSE LET sorted == SortDescending(units)
       IN IF \E i \in 1..Len(sorted) : NonPositive(sorted[i].value)
          THEN TableThrew(NonPositiveMessage)
          ELSE TableReturned(sorted)

\* ------------------------------------------------------------------ helpers

SpreadWithUnits_OptionsLast(options, units) ==
  LET obj == IF options = None THEN [f \in {} |-> None] ELSE options[1]
  IN [f \in (DOMAIN obj) \cup {"units"} |->
        IF f \in DOMAIN obj THEN obj[f] ELSE Some(units)]

\* { ...options, units }
SpreadWithUnits(options, units) ==
  LET obj == IF options = None THEN [f \in {} |-> None] ELSE options[1]
  IN [f \in (DOMAIN obj) \cup {"units"} |-> IF f = "units" THEN Some(units) ELSE obj[f]]

\* createHumanizeHelper(units)(value, options)
createHumanizeHelper_AssignsUnits(units, value, options, defaults) ==
  LET merged == Some(SpreadWithUnits(options, units))
      call == humanizeUnit(value, merged, defaults)
  IN [ result |-> call.result,
       options |-> call.options,
       units |-> call.options[1].units[1],
       defaults |-> call.defaults ]

createHumanizeHelper(units, value, options, defaults) ==
  LET call == humanizeUnit(value, Some(SpreadWithUnits(options, units)), defaults)
  IN [ result |-> call.result,
       options |-> options,
       units |-> call.options[1].units[1],
       defaults |-> call.defaults ]

\* ------------------------------------------------------------------ inputs

\* longest caller-built unit table
MaxUnits == 3

\* entries a caller builds tables from: thresholds above, at and below 1, an
\* empty suffix, and a threshold a valid table may not hold (0)
UnitPool ==
  { Unit(Pos(1, 3), "k"), Unit(Pos(1, 0), ""), Unit(Pos(1, -3), "m"),
    Unit(Pos(0, 0), "z") }

distanceUnits == << Unit(Pos(1, 3), "km"), Unit(Pos(1, 0), "m") >>
testUnits == << Unit(Pos(1, 6), "M"), Unit(Pos(1, 3), "K"), Unit(Pos(1, 0), "") >>

RECURSIVE SeqsUpTo(_, _)
SeqsUpTo(S, n) ==
  IF n = 0 THEN { <<>> }
  ELSE LET shorter == SeqsUpTo(S, n - 1)
       IN shorter \cup { Append(t, u) : t \in shorter, u \in S }

\* tables with a negative threshold
negativeUnits == << Unit(Num(TRUE, 1, 0), "n") >>
mixedUnits == << Unit(Pos(1, 3), "k"), Unit(Num(TRUE, 1, 3), "n"), Unit(Pos(1, 0), "") >>

baseUnits == << Unit(Pos(1, 0), "") >>

\* tables a caller may pass though no entry can be used: none at all, a threshold 0
emptyUnits == << >>
zeroUnits == << Unit(Pos(0, 0), "z") >>

\* tables where two entries share a threshold: the largest one, the smallest one
sharedLargest == << Unit(Pos(1, 3), "a"), Unit(Pos(1, 3), "b"), Unit(Pos(1, 0), "") >>
sharedSmallest == << Unit(Pos(1, 3), "k"), Unit(Pos(1, 0), "a"), Unit(Pos(1, 0), "b") >>

\* the tables every option object is combined with
FormatTables == { SI, Time, Count, distanceUnits, testUnits, baseUnits }

\* the tables that are combined with OddOptions
OddTables ==
  { negativeUnits, mixedUnits, emptyUnits, zeroUnits, sharedLargest, sharedSmallest,
    distanceUnits }

NamedTables == FormatTables \cup OddTables

Tables == SeqsUpTo(UnitPool, MaxUnits) \cup NamedTables

Magnitudes ==
  { Pos(9, -4), Pos(1, -3), Pos(5, -1), Pos(1, 0), Pos(12, 0), Pos(125, -1),
    Pos(1, 3), Pos(15, 2), Pos(36, 2), Pos(12345, 0), Pos(42, 3), Pos(864, 2),
    Pos(999999, 0), Pos(1234567, 0), Pos(8388608, 0), Pos(12345678, 0) }

FiniteValues == { Pos(0, 0) } \cup Magnitudes \cup { Negate(x) : x \in Magnitudes }

Values == { Null, UndefinedValue, NaN, PosInfinity, NegInfinity } \cup FiniteValues

\* option objects without a units property
PlainOptions ==
  { [f \in {} |-> None],
    [significantDigits |-> Some(2), minimumSignificantDigits |-> Some(2)],
    [postfix |-> Some("B"), unitSeparator |-> Some(" "), emptyValue |-> None] }

BaseOptions ==
  PlainOptions \cup
  { [unitSeparator |-> Some(" "), emptyValue |-> Some("n/a")],
    [significantDigits |-> Some(4), useGrouping |-> Some(TRUE), locale |-> Some("de-DE")],
    [minimumSignificantDigits |-> Some(4), emptyValue |-> Some("-")],
    [significantDigits |-> Some(3), minimumSignificantDigits |-> Some(3)],
    [postfix |-> Some("B"), useGrouping |-> Some(TRUE), significantDigits |-> Some(4),
     minimumSignificantDigits |-> Some(4)],
    [useGrouping |-> Some(TRUE), significantDigits |-> Some(5), locale |-> Some("en-US")],
    [useGrouping |-> Some(TRUE), significantDigits |-> Some(5), locale |-> Some("de-DE")],
    [useGrouping |-> Some(TRUE)],
    [significantDigits |-> Some(2)],
    [postfix |-> Some("B")] }

\* option objects for the tables of OddTables: the plain ones, and digit options
\* the number formatter does not accept
OddOptions ==
  PlainOptions \cup
  { [minimumSignificantDigits |-> Some(4), emptyValue |-> Some("-")],
    [significantDigits |-> Some(0)],
    [significantDigits |-> Some(22)] }

WithUnits(obj, units) ==
  [f \in (DOMAIN obj) \cup {"units"} |-> IF f = "units" THEN Some(units) ELSE obj[f]]

\* the options argument: omitted, an object without units, an object with one of
\* the named tables
NamedArgs ==
  { None } \cup { Some(b) : b \in BaseOptions \cup OddOptions }
    \cup { Some(WithUnits(b, t)) : b \in BaseOptions, t \in FormatTables }
    \cup { Some(WithUnits(b, t)) : b \in OddOptions, t \in OddTables }

\* the options argument with a caller-built table
PoolArgs == { Some(WithUnits(b, t)) : b \in PlainOptions, t \in Tables }

OptionArgs == NamedArgs \cup PoolArgs

\* the values the caller-built tables are called with
PoolMagnitudes ==
  { Pos(9, -4), Pos(5, -1), Pos(1, 0), Pos(1, 3), Pos(15, 2), Pos(1234567, 0) }

PoolValues ==
  { Pos(0, 0) } \cup PoolMagnitudes \cup { Negate(x) : x \in PoolMagnitudes }

\* the options arguments the helpers are called with
HelperArgs ==
  { None } \cup { Some(b) : b \in BaseOptions }
    \cup { Some(WithUnits(b, t)) : b \in PlainOptions, t \in { distanceUnits, baseUnits } }

\* the helpers, by the table each was created with
Helpers == [ humanizeCount |-> Count, humanizeBytes |-> Bytes, humanizeTime |-> Time ]

\* ------------------------------------------------------------------ state machine

VARIABLES
  value,           \* the value argument
  options,         \* the caller's options argument (None when omitted)
  defaultOptions,  \* the module's DEFAULT_OPTIONS object
  helperUnits,     \* the module's tables the helpers were created with
  callee,          \* "" before the call, then the function that was called
  result,          \* what the call returned or threw
  calls,           \* how many calls have completed
  tableCall,       \* the call of a table-building function, NoTableCall when none
  tableResult      \* the table that call returned, or its error

vars ==
  << value, options, defaultOptions, helperUnits, callee, result, calls,
     tableCall, tableResult >>

NoTableCall ==
  [fn |-> "", name |-> "", postfix |-> "", minExponent |-> None,
   maxExponent |-> None, units |-> << >>]
NoTable == [status |-> "pending", text |-> "", units |-> << >>]

NoResult == [status |-> "pending", text |-> ""]

Init ==
  /\ \/ value \in Values /\ options \in NamedArgs
     \/ value \in PoolValues /\ options \in PoolArgs
  /\ defaultOptions = DEFAULT_OPTIONS
  /\ helperUnits = Helpers
  /\ callee = ""
  /\ result = NoResult
  /\ calls = 0
  /\ tableCall = NoTableCall
  /\ tableResult = NoTable

\* humanizeUnit(value, options)
CallHumanizeUnit ==
  /\ callee = ""
  /\ LET call == humanizeUnit(value, options, defaultOptions)
     IN /\ result' = call.result
        /\ options' = call.options
        /\ defaultOptions' = call.defaults
  /\ callee' = "humanizeUnit"
  /\ calls' = calls + 1
  /\ UNCHANGED << value, helperUnits, tableCall, tableResult >>

\* helper(value, options) for one of the helper wrappers
CallHelper(h) ==
  /\ callee = ""
  /\ options \in HelperArgs
  /\ LET call == createHumanizeHelper(helperUnits[h], value, options, defaultOptions)
     IN /\ result' = call.result
        /\ options' = call.options
        /\ defaultOptions' = call.defaults
        /\ helperUnits' = [helperUnits EXCEPT ![h] = call.units]
  /\ callee' = h
  /\ calls' = calls + 1
  /\ UNCHANGED << value, tableCall, tableResult >>

Next == CallHumanizeUnit \/ \E h \in DOMAIN Helpers : CallHelper(h)

Spec == Init /\ [][Next]_vars

\* --- a program that makes one call after another. A call runs to completion
\* before the next statement of any caller runs (the functions are synchronous
\* and await nothing), so calls made from concurrent tasks happen in some order,
\* one whole call at a time.

\* calls made in one run
MaxCalls == 2

RepeatValues == { NaN, Pos(0, 0), Pos(15, 2), Num(TRUE, 1234567, 0), Pos(9, -4) }

RepeatArgs ==
  { None,
    Some([f \in {} |-> None]),
    Some([significantDigits |-> Some(2), minimumSignificantDigits |-> Some(2)]),
    Some([postfix |-> Some("B"), unitSeparator |-> Some(" "), emptyValue |-> None]),
    Some([units |-> Some(distanceUnits)]),
    Some([units |-> Some(emptyUnits), emptyValue |-> Some("n/a")]) }

InitRepeated ==
  /\ value \in RepeatValues
  /\ options \in RepeatArgs
  /\ defaultOptions = DEFAULT_OPTIONS
  /\ helperUnits = Helpers
  /\ callee = ""
  /\ result = NoResult
  /\ calls = 0
  /\ tableCall = NoTableCall
  /\ tableResult = NoTable

\* the caller goes on to its next call, with arguments of its choice
NextCall ==
  /\ callee # ""
  /\ calls < MaxCalls
  /\ value' \in RepeatValues
  /\ options' \in RepeatArgs
  /\ callee' = ""
  /\ result' = NoResult
  /\ UNCHANGED << defaultOptions, helperUnits, calls, tableCall, tableResult >>

NextRepeated == CallHumanizeUnit \/ (\E h \in DOMAIN Helpers : CallHelper(h)) \/ NextCall

SpecRepeated == InitRepeated /\ [][NextRepeated]_vars

\* --- a program that builds a unit table: siUnits(postfix, options) or
\* normalizeUnits(units)

Postfixes == { "", "B", "m" }

\* the minExponent and maxExponent options: left out, on a prefix, between two
\* prefixes, beyond the last prefix
MinExponents == { None, Some(-25), Some(-24), Some(-9), Some(-6), Some(0), Some(1), Some(4), Some(25) }
MaxExponents == { None, Some(-25), Some(0), Some(2), Some(3), Some(6), Some(15), Some(24), Some(30) }

SiUnitsCalls ==
  { [fn |-> "siUnits", name |-> "", postfix |-> p, minExponent |-> lo, maxExponent |-> hi,
     units |-> << >>] : p \in Postfixes, lo \in MinExponents, hi \in MaxExponents }

NormalizeUnitsCalls ==
  { [fn |-> "normalizeUnits", name |-> "", postfix |-> "", minExponent |-> None,
     maxExponent |-> None, units |-> t] : t \in Tables }

\* import { name } from the module
ImportCalls ==
  { [fn |-> "import", name |-> n, postfix |-> "", minExponent |-> None,
     maxExponent |-> None, units |-> << >>] : n \in DOMAIN BuiltInTables }

InitTables ==
  /\ value = Pos(0, 0)
  /\ options = None
  /\ defaultOptions = DEFAULT_OPTIONS
  /\ helperUnits = Helpers
  /\ callee = ""
  /\ result = NoResult
  /\ calls = 0
  /\ tableCall \in SiUnitsCalls \cup NormalizeUnitsCalls \cup ImportCalls
  /\ tableResult = NoTable

\* siUnits(postfix, { minExponent, maxExponent })
CallSiUnits ==
  /\ tableCall.fn = "siUnits"
  /\ tableResult = NoTable
  /\ tableResult' =
       TableReturned(siUnits(tableCall.postfix, tableCall.minExponent,
                             tableCall.maxExponent))
  /\ UNCHANGED << value, options, defaultOptions, helperUnits, callee, result, calls,
                  tableCall >>

\* normalizeUnits(units)
CallNormalizeUnits ==
  /\ tableCall.fn = "normalizeUnits"
  /\ tableResult = NoTable
  /\ tableResult' = normalizeUnits(tableCall.units)
  /\ UNCHANGED << value, options, defaultOptions, helperUnits, callee, result, calls,
                  tableCall >>

\* the exported table of a name, as the module built it when it was loaded
ImportTable ==
  /\ tableCall.fn = "import"
  /\ tableResult = NoTable
  /\ tableResult' = TableReturned(BuiltInTables[tableCall.name])
  /\ UNCHANGED << value, options, defaultOptions, helperUnits, callee, result, calls,
                  tableCall >>

NextTables == CallSiUnits \/ CallNormalizeUnits \/ ImportTable

SpecTables == InitTables /\ [][NextTables]_vars

\* ------------------------------------------------------------------ vocabulary of the claims

Direct == callee = "humanizeUnit"
Called == callee # ""
FiniteCall == Direct /\ value.kind = "finite"

\* the options of the call, destructured, and the unit table among them
O == DestructureOptions(options, defaultOptions)
T == O.units

\* the caller passed a units table
UnitsGiven == options # None /\ "units" \in DOMAIN options[1] /\ options[1].units # None

\* non-empty, every threshold > 0
ValidTable(t) == Len(t) > 0 /\ \A i \in 1..Len(t) : ~NonPositive(t[i].value)

DistinctThresholds(t) ==
  \A i, j \in 1..Len(t) : i # j => ~MagnitudeEQ(t[i].value, t[j].value)

\* t[i] has the largest threshold among those <= |v|
LargestNotAbove(t, i, v) ==
  /\ MagnitudeGE(v, t[i].value)
  /\ \A j \in 1..Len(t) :
       MagnitudeGE(v, t[j].value) => MagnitudeGE(t[i].value, t[j].value)

\* t[i] has the smallest threshold of t
Smallest(t, i) == \A j \in 1..Len(t) : MagnitudeGE(t[j].value, t[i].value)

BelowEvery(t, v) == \A i \in 1..Len(t) : ~MagnitudeGE(v, t[i].value)

\* the emptyValue option as the caller gave it
GivenEmptyValue ==
  IF options # None /\ "emptyValue" \in DOMAIN options[1] /\ options[1].emptyValue # None
  THEN options[1].emptyValue[1]
  ELSE ""

\* the reorderings of a table
Reorderings(t) == { [i \in 1..Len(t) |-> t[f[i]]] : f \in Permutations(1..Len(t)) }

\* --- the parts of a returned string

HelperNames == DOMAIN Helpers
ByHelper == callee \in HelperNames

\* the entry humanizeUnit selects for the value
Selected == T[selectUnit(IF IsZero(value) THEN One ELSE value, T).index]

\* what follows the number in the result: the unit's suffix and the postfix
Suffix == Selected.unit \o O.postfix

EndsWith(s, tail) ==
  Len(s) >= Len(tail) /\ SubSeq(s, Len(s) - Len(tail) + 1, Len(s)) = tail

\* a finite call that returned number + separator + suffix
Formatted ==
  /\ FiniteCall
  /\ result.status = "returned"
  /\ EndsWith(result.text, Suffix)

\* the result without the suffix: the number, and the separator if there is one
BeforeSuffix == SubSeq(result.text, 1, Len(result.text) - Len(Suffix))

\* the length of the longest prefix of s made of a sign, digits and marks
RECURSIVE NumberEnd(_, _)
NumberEnd(s, i) ==
  IF i < Len(s) /\ SubSeq(s, i + 1, i + 1)
                     \in {"-", ".", ",", "0", "1", "2", "3", "4", "5", "6", "7", "8", "9"}
  THEN NumberEnd(s, i + 1)
  ELSE i

\* the rendered number, and what stands between it and the suffix
NumberText == SubSeq(BeforeSuffix, 1, NumberEnd(BeforeSuffix, 0))
Between == SubSeq(BeforeSuffix, NumberEnd(BeforeSuffix, 0) + 1, Len(BeforeSuffix))

\* --- reading a rendered number back

IsDigit(c) == c \in {"0", "1", "2", "3", "4", "5", "6", "7", "8", "9"}

DigitValue(c) ==
  CASE c = "0" -> 0 [] c = "1" -> 1 [] c = "2" -> 2 [] c = "3" -> 3 [] c = "4" -> 4
    [] c = "5" -> 5 [] c = "6" -> 6 [] c = "7" -> 7 [] c = "8" -> 8 [] c = "9" -> 9

\* s without the occurrences of the character c
RECURSIVE Without(_, _)
Without(s, c) ==
  IF Len(s) = 0 THEN ""
  ELSE (IF SubSeq(s, 1, 1) = c THEN "" ELSE SubSeq(s, 1, 1))
         \o Without(SubSeq(s, 2, Len(s)), c)

\* the first position of the character c in s, 0 when there is none
RECURSIVE IndexFrom(_, _, _)
IndexFrom(s, c, i) ==
  IF i > Len(s) THEN 0
  ELSE IF SubSeq(s, i, i) = c THEN i
  ELSE IndexFrom(s, c, i + 1)

AllDigits(s) == \A i \in 1..Len(s) : IsDigit(SubSeq(s, i, i))

RECURSIVE ToNat(_)
ToNat(s) ==
  IF Len(s) = 0 THEN 0
  ELSE 10 * ToNat(SubSeq(s, 1, Len(s) - 1)) + DigitValue(SubSeq(s, Len(s), Len(s)))

RECURSIVE DropLeadingZeros(_)
DropLeadingZeros(s) ==
  IF Len(s) > 0 /\ SubSeq(s, 1, 1) = "0" THEN DropLeadingZeros(SubSeq(s, 2, Len(s)))
  ELSE s

RECURSIVE DropTrailingZeros(_)
DropTrailingZeros(s) ==
  IF Len(s) > 0 /\ SubSeq(s, Len(s), Len(s)) = "0"
  THEN DropTrailingZeros(SubSeq(s, 1, Len(s) - 1))
  ELSE s

\* the sign, integer digits and fraction digits of a number written for a locale
Split(text, locale) ==
  LET neg == StartsWith(text, "-")
      body == IF neg THEN SubSeq(text, 2, Len(text)) ELSE text
      plain == Without(body, GroupMark(locale))
      mark == IndexFrom(plain, DecimalMark(locale), 1)
  IN [ neg |-> neg,
       body |-> body,
       int |-> IF mark = 0 THEN plain ELSE SubSeq(plain, 1, mark - 1),
       frac |-> IF mark = 0 THEN "" ELSE SubSeq(plain, mark + 1, Len(plain)) ]

WellFormed(text, locale) ==
  LET s == Split(text, locale)
  IN Len(s.int) > 0 /\ AllDigits(s.int) /\ AllDigits(s.frac)

\* the number a text stands for, as (-1)^neg * n * 10^p
Parsed(text, locale) ==
  LET s == Split(text, locale)
      kept == IF s.frac = "" THEN DropTrailingZeros(s.int) ELSE s.int \o s.frac
  IN [ neg |-> s.neg,
       n |-> ToNat(DropLeadingZeros(kept)),
       p |-> IF s.frac = "" THEN Len(s.int) - Len(kept) ELSE -Len(s.frac) ]

\* the digits of a written number from its first non-zero digit on
Significant(text, locale) ==
  LET s == Split(text, locale) IN DropLeadingZeros(s.int \o s.frac)

Min3(a, b, c) ==
  IF a <= b /\ a <= c THEN a ELSE IF b <= c THEN b ELSE c

Distance(a, b) == IF a >= b THEN a - b ELSE b - a

\* the written number r is v / t (v non-zero) to within half a unit of the digits-th
\* significant digit of v / t; the leading digits are compared first
WithinHalfUnit(r, v, t, digits) ==
  LET shift == v.e - t.e
      first == OrderOfRatio(v.m, t.m) + shift
      last == first - digits + 1
      low == Min3(r.p, shift, last)
  IN /\ r.n > 0
     /\ Distance(NumDigits(r.n) + r.p - 1, first) <= 1
     /\ 2 * Distance(r.n * t.m * Pow10(r.p - low), v.m * Pow10(shift - low))
          <= t.m * Pow10(last - low)

\* the number read back from the result
Number == Parsed(NumberText, O.locale)

\* ------------------------------------------------------------------ claims

\* C1: for a finite value and a valid table (non-empty, thresholds > 0), whenever
\* some threshold is <= |value| the value is rendered with the entry whose
\* threshold is the largest one <= |value| (inclusive comparison).
C1_LargestThresholdUsed ==
  ( /\ FiniteCall
    /\ ValidTable(T)
    /\ result.status = "returned"
    /\ \E i \in 1..Len(T) : MagnitudeGE(value, T[i].value) )
  => \E i \in 1..Len(T) :
       LargestNotAbove(T, i, value) /\ result.text = Rendered(value, T[i], O)

\* C2, at the non-zero values it covers: for a finite value and a valid table, unit
\* selection never fails, and a value whose magnitude is below every threshold is
\* rendered with the entry of the smallest threshold, divided by that threshold.
C2_FallbackIsSmallest ==
  (FiniteCall /\ ~IsZero(value) /\ ValidTable(T))
  => /\ result # Threw(EmptyTableMessage)
     /\ (BelowEvery(T, value) /\ result.status = "returned")
        => \E i \in 1..Len(T) :
             Smallest(T, i) /\ result.text = Rendered(value, T[i], O)

\* C3: for null, undefined and NaN the call returns exactly the emptyValue option
\* ("" when it is not given), whatever the other options are.
C3_EmptyValueReturned ==
  (Called /\ value.kind \in {"null", "undefined", "NaN"})
  => result = Returned(GivenEmptyValue)

C3_Witness ==
  /\ Called
  /\ value = NaN
  /\ UnitsGiven
  /\ GivenEmptyValue = "n/a"
  /\ result = Returned("n/a")

\* C4: +Infinity gives exactly "Infinity" and -Infinity exactly "-Infinity", for
\* every options value: no unit, separator, postfix or emptyValue is applied.
C4_InfinityStringified ==
  (Called /\ value.kind = "Infinity")
  => result = Returned(IF value.neg THEN "-Infinity" ELSE "Infinity")

C4_Witness ==
  /\ Direct
  /\ value = NegInfinity
  /\ options # None
  /\ O.postfix = "B"
  /\ O.unitSeparator = " "
  /\ result = Returned("-Infinity")

\* C5: a finite value with an empty unit table throws 'humanizeUnit requires at
\* least one unit definition.': no string is returned and the default table is not
\* used instead.
C5_EmptyTableThrows ==
  (FiniteCall /\ UnitsGiven /\ Len(options[1].units[1]) = 0)
  => result = Threw(EmptyTableMessage)

C5_Witness ==
  /\ FiniteCall
  /\ UnitsGiven
  /\ options[1].units[1] = << >>
  /\ value = Pos(1, 3)
  /\ result.status = "threw"

\* C6: a finite value with a table in which some entry has a threshold <= 0
\* throws, also when that entry is not the one selected for the value.
C6_NonPositiveThresholdThrows ==
  ( /\ FiniteCall
    /\ UnitsGiven
    /\ \E i \in 1..Len(T) : NonPositive(T[i].value) )
  => result.status = "threw"

\* C7: for a finite value and a valid table with distinct thresholds, every
\* reordering of the table's entries gives the same string.
C7_OrderIrrelevant ==
  ( /\ FiniteCall
    /\ UnitsGiven
    /\ ValidTable(T)
    /\ DistinctThresholds(T)
    /\ Len(T) <= MaxUnits )
  => \A p \in Reorderings(T) :
       Humanized(value, Some(WithUnits(options[1], p)), defaultOptions) = result

\* C8: a call (returning or throwing) leaves the caller's options object, the unit
\* table in it, the module's default options and the helpers' tables as they were.
C8_ArgumentsUnchanged ==
  [][ /\ options' = options
      /\ defaultOptions' = defaultOptions
      /\ helperUnits' = helperUnits ]_vars

C8_Witness ==
  /\ callee = "humanizeTime"
  /\ options # None
  /\ "units" \notin DOMAIN options[1]
  /\ value = Pos(864, 2)
  /\ result = Returned("1 d")

\* C9: sign symmetry: for a finite non-zero value and a valid table, when the result
\* does not start with "-", the result for the negated value is "-" followed by it.
C9_SignSymmetry ==
  ( /\ FiniteCall
    /\ ~IsZero(value)
    /\ ValidTable(T)
    /\ result.status = "returned"
    /\ ~StartsWith(result.text, "-") )
  => Humanized(Negate(value), options, defaultOptions) = Returned("-" \o result.text)

C9_Witness ==
  /\ FiniteCall
  /\ value = Pos(15, 2)
  /\ UnitsGiven
  /\ T = distanceUnits
  /\ result = Returned("1.5km")
  /\ Humanized(Negate(value), options, defaultOptions) = Returned("-1.5km")

\* C10: selection depends on the magnitude only: the value is rendered with the
\* entry that is selected for the negated value.
C10_SelectionIgnoresSign ==
  (FiniteCall /\ ValidTable(T) /\ result.status = "returned")
  => LET chosen == selectUnit(IF IsZero(value) THEN One ELSE Negate(value), T)
     IN result.text = Rendered(value, T[chosen.index], O)

C10_Witness ==
  /\ FiniteCall
  /\ value = Negate(Pos(42, 3))
  /\ UnitsGiven
  /\ T = distanceUnits
  /\ result = Returned("-42km")

C12_ScaledBySelectedThreshold ==
  (FiniteCall /\ ValidTable(T) /\ result.status = "returned")
  => /\ Formatted
     /\ WellFormed(NumberText, O.locale)
     /\ IsZero(value) => Number.n = 0
     /\ ~IsZero(value) =>
          /\ Number.neg = value.neg
          /\ WithinHalfUnit(Number, value, Selected.value, O.significantDigits)
          /\ \A u \in {T[j].value : j \in 1..Len(T)} \cup {One} :
               ~MagnitudeEQ(u, Selected.value)
                 => ~WithinHalfUnit(Number, value, u, O.significantDigits)

C12_Witness ==
  /\ Formatted
  /\ value = Negate(Pos(1234567, 0))
  /\ T = testUnits
  /\ Selected = Unit(Pos(1, 6), "M")
  /\ NumberText = "-1.23"
  /\ result = Returned("-1.23M")

\* C13: each option is defaulted on its own: a call gives the same result as the
\* call in which any one option that is absent or undefined is passed with its
\* default value, and as the call in which all of them are (significantDigits 3,
\* minimumSignificantDigits 1, locale 'en-US', useGrouping false, unitSeparator '',
\* emptyValue '', postfix '', units SI), the options that were given kept as given.
C13_DocumentedDefaults ==
  [ units |-> Some(SI),
    postfix |-> Some(""),
    significantDigits |-> Some(3),
    minimumSignificantDigits |-> Some(1),
    locale |-> Some("en-US"),
    useGrouping |-> Some(FALSE),
    unitSeparator |-> Some(""),
    emptyValue |-> Some("") ]

C13_Given == IF options = None THEN [f \in {} |-> None] ELSE options[1]

C13_NotGiven ==
  { f \in DOMAIN C13_DocumentedDefaults :
      f \notin DOMAIN C13_Given \/ C13_Given[f] = None }

C13_WithDefaults(fields) ==
  Some([f \in (DOMAIN C13_Given) \cup fields |->
          IF f \in fields THEN C13_DocumentedDefaults[f] ELSE C13_Given[f]])

C13_DefaultsIndependent ==
  Direct
  => /\ \A f \in C13_NotGiven :
          Humanized(value, C13_WithDefaults({f}), defaultOptions) = result
     /\ Humanized(value, C13_WithDefaults(C13_NotGiven), defaultOptions) = result

C13_Witness ==
  /\ Direct
  /\ value = Pos(12345, 0)
  /\ options = Some([significantDigits |-> Some(2), minimumSignificantDigits |-> Some(2)])
  /\ "locale" \in C13_NotGiven
  /\ result = Returned("12k")
  /\ Humanized(value, C13_WithDefaults(C13_NotGiven), defaultOptions) = Returned("12k")

C15_ZeroWithoutPrefix ==
  ( /\ FiniteCall
    /\ IsZero(value)
    /\ ValidTable(T)
    /\ DistinctThresholds(T)
    /\ \E i \in 1..Len(T) : T[i] = Unit(One, "")
    /\ result.status = "returned" )
  => result.text = Rendered(value, Unit(One, ""), O)

\* C16: the rendered number is the scaled value rounded to at most
\* significantDigits significant digits and padded with trailing zeros up to
\* minimumSignificantDigits: it is within half a unit of the last allowed digit of
\* the scaled value, no digit after the significantDigits-th is non-zero, it has at
\* least minimumSignificantDigits digits, and fraction zeros appear only as padding.
C16_DigitsOf == Significant(NumberText, O.locale)

C16_Fraction == Split(NumberText, O.locale).frac

C16_SignificantDigits ==
  (FiniteCall /\ ValidTable(T) /\ result.status = "returned")
  => /\ Formatted
     /\ WellFormed(NumberText, O.locale)
     /\ IsZero(value) =>
          NumberText = "0" \o (IF O.minimumSignificantDigits > 1
                                THEN DecimalMark(O.locale)
                                       \o Zeros(O.minimumSignificantDigits - 1)
                                ELSE "")
     /\ ~IsZero(value) =>
          /\ WithinHalfUnit(Number, value, Selected.value, O.significantDigits)
          /\ \A i \in 1..Len(C16_DigitsOf) :
               i > O.significantDigits => SubSeq(C16_DigitsOf, i, i) = "0"
          /\ C16_Fraction # "" => Len(C16_DigitsOf) <= O.significantDigits
          /\ Len(C16_DigitsOf) >= O.minimumSignificantDigits
          /\ EndsWith(C16_Fraction, "0") =>
               Len(C16_DigitsOf) <= O.minimumSignificantDigits
     /\ (T = testUnits /\ "significantDigits" \notin DOMAIN options[1]
           /\ "minimumSignificantDigits" \notin DOMAIN options[1]
           /\ value = Pos(1234567, 0))
          => NumberText = "1.23" /\ Suffix = "M" \o O.postfix
     /\ (T = testUnits /\ options[1] = WithUnits([significantDigits |-> Some(2)], T)
           /\ value = Pos(12345, 0))
          => result.text = "12K"
     /\ (O.significantDigits = 3 /\ O.minimumSignificantDigits = 3
           /\ T = Count /\ value = Pos(12, 0))
          => result.text = "12.0"
     /\ (O.significantDigits = 4 /\ O.minimumSignificantDigits = 4
           /\ T = SI /\ value = Pos(15, 2))
          => NumberText = "1.500" /\ Suffix = "k" \o O.postfix

C16_Witness ==
  /\ Formatted
  /\ value = Pos(15, 2)
  /\ O.significantDigits = 4
  /\ O.minimumSignificantDigits = 4
  /\ O.postfix = "B"
  /\ T = SI
  /\ result = Returned("1.500kB")

\* C17: with useGrouping false the rendered number holds no grouping separator;
\* with useGrouping true its integer digits stand in groups of three divided by the
\* locale's separator, the rest of the result is that of the call without
\* grouping, and the decimal mark is the locale's: 12345 with [{1, ''}] and 5
\* digits is '12,345' for en-US and '12.345' for de-DE, 12345678 with Count, de-DE
\* and 4 digits is '12,35M'.
C17_Written == Split(NumberText, O.locale).body

C17_IntegerWritten ==
  LET mark == IndexFrom(C17_Written, DecimalMark(O.locale), 1)
  IN IF mark = 0 THEN C17_Written ELSE SubSeq(C17_Written, 1, mark - 1)

C17_InGroupsOfThree(s, mark) ==
  /\ Len(s) > 0
  /\ \A i \in 1..Len(s) :
       IF (Len(s) - i + 1) % 4 = 0 THEN SubSeq(s, i, i) = mark
       ELSE IsDigit(SubSeq(s, i, i))

C17_Ungrouped ==
  Humanized(value, Some([options[1] EXCEPT !.useGrouping = Some(FALSE)]), defaultOptions)

C17_GroupingAndLocale ==
  (FiniteCall /\ ValidTable(T) /\ result.status = "returned")
  => /\ Formatted
     /\ WellFormed(NumberText, O.locale)
     /\ ~IsZero(value) =>
          WithinHalfUnit(Number, value, Selected.value, O.significantDigits)
     /\ ~O.useGrouping =>
          /\ IndexFrom(NumberText, GroupMark(O.locale), 1) = 0
          /\ AllDigits(C17_IntegerWritten)
     /\ O.useGrouping =>
          /\ C17_InGroupsOfThree(C17_IntegerWritten, GroupMark(O.locale))
          /\ C17_Ungrouped.status = "returned"
          /\ Without(NumberText, GroupMark(O.locale)) \o Between \o Suffix
               = C17_Ungrouped.text
     /\ (O.useGrouping /\ O.significantDigits = 5 /\ T = baseUnits
           /\ value = Pos(12345, 0))
          => result.text = IF O.locale = "de-DE" THEN "12.345" ELSE "12,345"
     /\ (O.useGrouping /\ O.significantDigits = 4 /\ O.locale = "de-DE" /\ T = Count
           /\ O.minimumSignificantDigits = 1 /\ value = Pos(12345678, 0))
          => result.text = "12,35M"

C17_Witness ==
  /\ Formatted
  /\ value = Pos(12345, 0)
  /\ T = baseUnits
  /\ O.useGrouping
  /\ O.locale = "de-DE"
  /\ result = Returned("12.345")

C19_SeparatorGiven ==
  /\ options # None
  /\ "unitSeparator" \in DOMAIN options[1]
  /\ options[1].unitSeparator # None

EdgeValue == value.kind # "finite"

C21_EdgeValuesNeverThrow == Called /\ EdgeValue => result.status = "returned"

\* NaN, called with an empty table
C21_Witness ==
  /\ Direct /\ value = NaN /\ UnitsGiven /\ Len(T) = 0
  /\ result.status = "returned"

\* Infinity, called with digit options the number formatter rejects
C21_WitnessDigits ==
  /\ Direct /\ value = PosInfinity
  /\ FormatterThrows(O.significantDigits, O.minimumSignificantDigits)
  /\ result.status = "returned"

\* --- C22: for a finite value and a non-empty table whose thresholds are all > 0
\* the call returns a string when 1 <= minimumSignificantDigits <=
\* significantDigits <= 21, and otherwise throws the RangeError of the number
\* formatter: a malformed table is not the only reason for a call to fail

DigitsAccepted ==
  /\ 1 <= O.minimumSignificantDigits
  /\ O.minimumSignificantDigits <= O.significantDigits
  /\ O.significantDigits <= 21

Alone ==
  IF Direct THEN humanizeUnit(value, options, DEFAULT_OPTIONS).result
  ELSE createHumanizeHelper(Helpers[callee], value, options, DEFAULT_OPTIONS).result

C23_CallsIndependent ==
  /\ defaultOptions = DEFAULT_OPTIONS
  /\ helperUnits = Helpers
  /\ Called => result = Alone

\* a later call made without options, after calls that were given options
C23_Witness ==
  /\ calls = MaxCalls /\ Direct /\ options = None /\ value = Pos(15, 2)
  /\ result = Returned("1.5k")

\* --- C24: siUnits(postfix, {minExponent, maxExponent}) returns one entry for
\* each prefix exponent (the multiples of 3 from -24 to 24) between minExponent
\* and maxExponent (defaults -9 and 15), with threshold 10^exponent and the prefix
\* letter followed by postfix as its text, largest threshold first, all thresholds
\* > 0 and distinct; a range without such an exponent gives the empty table

Built == tableResult.units

SupportedExponents == { e \in -24..24 : e % 3 = 0 }

MinExponent == IF tableCall.minExponent = None THEN -9 ELSE tableCall.minExponent[1]
MaxExponent == IF tableCall.maxExponent = None THEN 15 ELSE tableCall.maxExponent[1]

ExponentsInRange == { e \in SupportedExponents : MinExponent <= e /\ e <= MaxExponent }

PrefixLetter(e) ==
  SI_PREFIXES[CHOOSE i \in 1..Len(SI_PREFIXES) : SI_PREFIXES[i].exponent = e].prefix

StrictlyDescending(t) ==
  \A i \in 1..Len(t) - 1 :
    MagnitudeGE(t[i].value, t[i + 1].value) /\ ~MagnitudeEQ(t[i].value, t[i + 1].value)

SiUnitsReturned == tableCall.fn = "siUnits" /\ tableResult # NoTable

C24_SiUnitsTable ==
  SiUnitsReturned =>
    /\ tableResult.status = "returned"
    /\ Len(Built) = Cardinality(ExponentsInRange)
    /\ \A e \in ExponentsInRange :
         \E i \in 1..Len(Built) :
           Built[i] = Unit(Pos(1, e), PrefixLetter(e) \o tableCall.postfix)
    /\ \A i \in 1..Len(Built) : ~NonPositive(Built[i].value)
    /\ StrictlyDescending(Built)
    /\ DistinctThresholds(Built)

\* siUnits('B', {minExponent: 0, maxExponent: 6}) is B, kB, MB, largest first
C24_Witness ==
  /\ SiUnitsReturned
  /\ tableCall.postfix = "B"
  /\ tableCall.minExponent = Some(0) /\ tableCall.maxExponent = Some(6)
  /\ Built = << Unit(Pos(1, 6), "MB"), Unit(Pos(1, 3), "kB"), Unit(Pos(1, 0), "B") >>

\* a range between two prefixes gives the empty table
C24_WitnessEmpty ==
  /\ SiUnitsReturned
  /\ tableCall.minExponent = Some(1) /\ tableCall.maxExponent = Some(2)
  /\ Built = << >>

\* --- C25: for a valid table t, normalizeUnits(t) holds exactly the entries of t,
\* each as often as t holds it, in non-increasing threshold order, and normalizing
\* the result again gives the same table entry by entry

Occurrences(t, u) == Cardinality({ i \in 1..Len(t) : t[i] = u })

SameEntries(s, t) ==
  /\ Len(s) = Len(t)
  /\ \A i \in 1..Len(t) : Occurrences(s, t[i]) = Occurrences(t, t[i])

NonIncreasing(t) ==
  \A i \in 1..Len(t) - 1 : MagnitudeGE(t[i].value, t[i + 1].value)

NormalizeReturned == tableCall.fn = "normalizeUnits" /\ tableResult # NoTable

C25_NormalizeSortsOnce ==
  NormalizeReturned /\ ValidTable(tableCall.units) =>
    /\ tableResult.status = "returned"
    /\ SameEntries(Built, tableCall.units)
    /\ NonIncreasing(Built)
    /\ normalizeUnits(Built) = tableResult

\* a table given smallest first, with a threshold that occurs twice
C25_Witness ==
  /\ NormalizeReturned /\ ValidTable(tableCall.units)
  /\ ~NonIncreasing(tableCall.units)
  /\ ~DistinctThresholds(tableCall.units)
  /\ tableResult.status = "returned"

\* --- C26: in every call that reaches the division the selected threshold is
\* > 0, so the divisor is that threshold and the fallback divisor 1 is not used

ReachedDivision == FiniteCall /\ result.status = "returned"

C26_DivisorIsPositiveThreshold == ReachedDivision => ~NonPositive(Selected.value)

\* as C26, for the fallback divisor alone: the selected threshold is never 0
C26_FallbackDivisorUnused == ReachedDivision => ~IsZero(Selected.value)

\* --- C27: for a fixed value and table the unit in the result is the same
\* whatever significantDigits, minimumSignificantDigits, locale, useGrouping,
\* unitSeparator and emptyValue are: the call made with any other of these
\* options shows the same unit. The rounded number does not change the unit:
\* 999_999 by default is '1000k'

\* what follows the number in a returned text
AfterNumber(text) == SubSeq(text, NumberEnd(text, 0) + 1, Len(text))

\* the unit shown in a returned text: what follows the number, without the
\* separator in front and the postfix behind
UnitShown(text, o) ==
  LET after == AfterNumber(text)
      unseparated ==
        IF o.unitSeparator # "" /\ StartsWith(after, o.unitSeparator)
        THEN SubSeq(after, Len(o.unitSeparator) + 1, Len(after))
        ELSE after
  IN IF EndsWith(unseparated, o.postfix)
     THEN SubSeq(unseparated, 1, Len(unseparated) - Len(o.postfix))
     ELSE unseparated

\* the call's options argument with the formatting options of b and the call's
\* unit table
Reformatted(b) == IF UnitsGiven THEN Some(WithUnits(b, T)) ELSE Some(b)

C27_UnitIgnoresFormatting ==
  /\ ReachedDivision =>
       \A b \in BaseOptions :
         LET other == Humanized(value, Reformatted(b), defaultOptions)
         IN other.status = "returned" =>
              UnitShown(other.text, DestructureOptions(Reformatted(b), defaultOptions))
                = UnitShown(result.text, O)
  /\ ( Direct /\ value = Pos(999999, 0) /\ options = None )
       => result = Returned("1000k")

\* 999_999 with the default table, rendered with 2 significant digits and with 6
C27_Witness ==
  /\ Direct /\ value = Pos(999999, 0) /\ ~UnitsGiven
  /\ O.significantDigits = 2
  /\ result = Returned("1000k")
  /\ Humanized(value, Some([significantDigits |-> Some(6)]), defaultOptions)
       = Returned("999.999k")

\* --- C28: for a finite non-zero value and a valid table: when some threshold is
\* <= |v|, |v| is at least the selected threshold and below every larger threshold
\* of the table; and |v| is below the selected threshold exactly when no
\* threshold is <= |v| and the entry of the smallest threshold was taken instead

SelectedIndex == selectUnit(IF IsZero(value) THEN One ELSE value, T).index

SomeThresholdNotAbove == \E i \in 1..Len(T) : MagnitudeGE(value, T[i].value)

Larger(a, b) == MagnitudeGE(a, b) /\ ~MagnitudeEQ(a, b)

ScaledInRange ==
  /\ SomeThresholdNotAbove =>
       /\ MagnitudeGE(value, Selected.value)
       /\ \A j \in 1..Len(T) :
            Larger(T[j].value, Selected.value) => ~MagnitudeGE(value, T[j].value)
  /\ ~MagnitudeGE(value, Selected.value)
       <=> (~SomeThresholdNotAbove /\ Smallest(T, SelectedIndex))

C28_ScaledRange ==
  FiniteCall /\ ~IsZero(value) /\ ValidTable(T) => ScaledInRange

\* C28 for the tables that list their thresholds largest first
C28_ScaledRangeOfOrderedTable ==
  FiniteCall /\ ~IsZero(value) /\ ValidTable(T) /\ NonIncreasing(T) => ScaledInRange

\* --- C29: every exported table is non-empty, has only thresholds > 0 and lists
\* them strictly descending; humanizeUnit and a helper made with the table return
\* for every value, and normalizeUnits accepts the table as it is

Imported == tableCall.fn = "import" /\ tableResult # NoTable

C29_BuiltInTablesValid ==
  Imported =>
    /\ ValidTable(Built)
    /\ StrictlyDescending(Built)
    /\ normalizeUnits(Built) = TableReturned(Built)
    /\ \A v \in Values :
         /\ humanizeUnit(v, Some([units |-> Some(Built)]), DEFAULT_OPTIONS).result.status
              = "returned"
         /\ createHumanizeHelper(Built, v, None, DEFAULT_OPTIONS).result.status
              = "returned"

\* the binary table, of which humanizeUnit(8_388_608, {units: Binary}) is '8Mi'
C29_Witness ==
  /\ Imported
  /\ tableCall.name = "Binary"
  /\ Len(Built) = 9
  /\ humanizeUnit(Pos(8388608, 0), Some([units |-> Some(Built)]), DEFAULT_OPTIONS).result
       = Returned("8Mi")

\* --- C30: in a valid table where entries share a threshold, the entry used is
\* the first entry of the caller's table whose threshold is <= the magnitude, which
\* is the first of those sharing its threshold; when every threshold is above the
\* magnitude the entry used is the last entry of the table, also when entries
\* before it share its threshold

\* the magnitude a unit is selected for
SelectedFor == IF IsZero(value) THEN One ELSE value

Matches(j) == MagnitudeGE(SelectedFor, T[j].value)

\* the first entry of the table with the threshold of entry i
FirstSharing(i) ==
  CHOOSE j \in 1..Len(T) :
    /\ MagnitudeEQ(T[j].value, T[i].value)
    /\ \A k \in 1..(j - 1) : ~MagnitudeEQ(T[k].value, T[i].value)

\* the entry the amended statement names
FirstMatchElseLast ==
  IF \E j \in 1..Len(T) : Matches(j)
  THEN CHOOSE j \in 1..Len(T) : Matches(j) /\ \A k \in 1..(j - 1) : ~Matches(k)
  ELSE Len(T)

C30_WitnessMatch ==
  /\ ReachedDivision
  /\ T = sharedLargest
  /\ value = Pos(15, 2)
  /\ options[1] = [units |-> Some(sharedLargest)]
  /\ result = Returned("1.5a")

====
